---- MODULE Spec2Model ----
(***************************************************************************)
(* Solar-thermal circuit controller (automatedhome/solar, cmd/main.go).    *)
(*                                                                         *)
(* The control loop of main(), the start()/stop() transitions, the flow    *)
(* mapping calculateFlow(), the two ingestion paths (EVOK websocket data   *)
(* and MQTT settings messages), the startup sequence of init() and the     *)
(* /health handler.                                                        *)
(*                                                                         *)
(* Six specifications: Spec is the loop after a regular startup, with      *)
(* every combination of failing actuators; SpecStart begins at init() and  *)
(* adds the configuration file, the -invert flag, settings updates and     *)
(* /health requests; SpecFlow evaluates calculateFlow on its own;          *)
(* SpecGuard feeds the loop with readings in which several guards hold;    *)
(* SpecRace takes a pass that sleeps in start() or stop() in two steps,    *)
(* with the ingestion paths running in between; SpecEmergency is the loop  *)
(* of the revision that reads an emergency switch from Home Assistant.     *)
(*                                                                         *)
(* Numbers.  The program computes in float64.  Here every float64 value is *)
(* an exact rational [n |-> numerator, d |-> denominator], d > 0, in       *)
(* lowest terms; arithmetic is exact, so float64 rounding is not part of   *)
(* this model.                                                             *)
(*                                                                         *)
(* Time.  Whole seconds.  The program only compares timestamps with the    *)
(* clock, so every timestamp is kept relative to the clock reading at the  *)
(* end of the last loop iteration: there the clock reads 0, lastPass is    *)
(* <= 0, and reducedTill is the time left until the deadline (0 once the   *)
(* deadline has passed).  systemStatus.Since is written and never read by  *)
(* the loop; only systemStatus.Mode is kept.                               *)
(***************************************************************************)
EXTENDS Integers, Sequences, FiniteSets, TLC

VARIABLES
    settings,             \* types.Settings values (main.go:32)
    sensors,              \* types.Sensors values (main.go:33)
    circuitRunning,       \* main.go:36
    invertFlow,           \* main.go:37
    lastPass,             \* main.go:39
    systemStatus,         \* main.go:40
    reducedTill,          \* main.go:541
    reducedMode,          \* main.go:542
    failsafeTotal,        \* main.go:51
    tankfullTotal,        \* main.go:55
    heatescapeTotal,      \* main.go:47
    reducedModeMetric,    \* main.go:59
    flowRate,             \* main.go:63
    circuitRunningMetric, \* main.go:67
    outcome,              \* what the last tick of the loop did (observation)
    emitted,              \* per pump/switch: last command emitted (observation)
    boot,                 \* position of init()/main() before the loop, sensors read
    health,               \* last response of the /health handler (observation)
    probe,                \* inputs and results of calculateFlow evaluations
    inTick,               \* position of the loop inside an iteration, and its locals
    solarEmergency,       \* cfg.SolarEmergency.Value (revision with Home Assistant)
    emergencyTotal        \* promMetrics.emergencyTotal (same revision)

vars == <<settings, sensors, circuitRunning, invertFlow, lastPass, systemStatus,
          reducedTill, reducedMode, failsafeTotal, tankfullTotal, heatescapeTotal,
          reducedModeMetric, flowRate, circuitRunningMetric, outcome,
          emitted, boot, health, probe, inTick, solarEmergency, emergencyTotal>>

----------------------------------------------------------------------------
(* Exact rational arithmetic standing for float64.                         *)

Abs(x) == IF x < 0 THEN -x ELSE x

RECURSIVE GCD(_, _)
GCD(a, b) == IF b = 0 THEN a ELSE GCD(b, a % b)

RNorm(n, d) ==
    LET g == GCD(Abs(n), d)
    IN  [n |-> n \div g, d |-> d \div g]

Rat(n, d) == RNorm(n, d)
R(n) == [n |-> n, d |-> 1]

RAdd(a, b) == RNorm(a.n * b.d + b.n * a.d, a.d * b.d)
RSub(a, b) == RNorm(a.n * b.d - b.n * a.d, a.d * b.d)
RMul(a, b) == RNorm(a.n * b.n, a.d * b.d)
RDiv(a, b) ==
    IF b.n > 0 THEN RNorm(a.n * b.d, a.d * b.n)
    ELSE IF b.n < 0 THEN RNorm((-a.n) * b.d, a.d * (-b.n))
    ELSE [n |-> (IF a.n > 0 THEN 1 ELSE IF a.n < 0 THEN -1 ELSE 0), d |-> 0]

RLt(a, b) == a.n * b.d < b.n * a.d
RLe(a, b) == a.n * b.d <= b.n * a.d
RGt(a, b) == RLt(b, a)
RGe(a, b) == RLe(b, a)

----------------------------------------------------------------------------
(* Program constants.                                                      *)

reductionDuration == 1800   \* 30 * time.Minute
TickSleep == 5              \* time.Sleep(5 * time.Second) at the top of the loop
SettleDelay == 1            \* time.Sleep(1 * time.Second) between actuator commands
FlowScale == 10             \* setFlow: value = 10.0 - value
HealthTimeout == 60         \* httpHealthCheck: time.Duration(1 * time.Minute)

(* The zero time.Time, which lastPass holds until the first pass of the    *)
(* loop: long before any clock reading of the program.                     *)
ZeroTime == -2000000000

(* Bounds of the model.                                                    *)

MaxTicks == 4               \* iterations of the control loop that are followed
MaxCount == 2               \* the guard counters are followed up to this value

Devices == {"pump", "switch", "flow"}

(* Time the loop may take from the end of one tick to the start of the     *)
(* next: the 5 s sleep, or the sleep stretched by scheduling and I/O.      *)
TickGaps == {TickSleep, reductionDuration - TickSleep}

----------------------------------------------------------------------------
(* Configuration as loaded by init(): addresses and initial values.        *)

Topics == [SolarCritical |-> "solar/settings/critical",
           SolarOn       |-> "solar/settings/on",
           SolarOff      |-> "solar/settings/off",
           TankMax       |-> "solar/settings/tankmax",
           DutyMin       |-> "solar/settings/flow/dutymin",
           DutyMax       |-> "solar/settings/flow/dutymax",
           TempMin       |-> "solar/settings/flow/tempmin",
           TempMax       |-> "solar/settings/flow/tempmax"]

ConfigSettings ==
    [SolarCritical |-> R(90), SolarOn |-> R(6), SolarOff |-> R(5), TankMax |-> R(65),
     DutyMin |-> Rat(18, 10), DutyMax |-> R(3), TempMin |-> R(5), TempMax |-> R(9)]

SensorId == [SolarUp  |-> [dev |-> "ai",   circuit |-> "1"],
             SolarIn  |-> [dev |-> "temp", circuit |-> "28IN"],
             SolarOut |-> [dev |-> "temp", circuit |-> "28OUT"],
             TankUp   |-> [dev |-> "temp", circuit |-> "28TANK"]]

----------------------------------------------------------------------------
(* Pure functions.                                                         *)

calculateTemperature(voltage) == RAdd(RDiv(RMul(voltage, R(200 - 0)), R(12)), R(0))

(* Slips of calculateFlow, each used to test one property below.           *)
Interpolate(delta, anchor) ==
    LET a == RDiv(RSub(settings.DutyMax, settings.DutyMin),
                  RSub(settings.TempMax, settings.TempMin))
        b == RSub(settings.DutyMin, RMul(anchor, a))
        flow == RAdd(RMul(a, delta), b)
        capped == IF RGt(flow, settings.DutyMax) THEN settings.DutyMax ELSE flow
    IN  IF RLt(capped, settings.DutyMin) THEN settings.DutyMin ELSE capped

calculateFlow_returnsTempMax(delta) ==      \* upper branch returns the wrong field
    IF RLe(delta, settings.TempMin) THEN settings.DutyMin
    ELSE IF RGe(delta, settings.TempMax) THEN settings.TempMax
    ELSE Interpolate(delta, settings.TempMin)

calculateFlow_returnsTempMin(delta) ==      \* lower branch returns the wrong field
    IF RLe(delta, settings.TempMin) THEN settings.TempMin
    ELSE IF RGe(delta, settings.TempMax) THEN settings.DutyMax
    ELSE Interpolate(delta, settings.TempMin)

calculateFlow_swapped(delta) ==             \* the two saturation values exchanged
    IF RLe(delta, settings.TempMin) THEN settings.DutyMax
    ELSE IF RGe(delta, settings.TempMax) THEN settings.DutyMin
    ELSE Interpolate(delta, settings.TempMin)

calculateFlow_wrongIntercept(delta) ==      \* B = s_min - T_max * A
    IF RLe(delta, settings.TempMin) THEN settings.DutyMin
    ELSE IF RGe(delta, settings.TempMax) THEN settings.DutyMax
    ELSE Interpolate(delta, settings.TempMax)

flowPath_noUpperReturn(delta) ==            \* without "if delta >= TempMax"
    IF RLe(delta, settings.TempMin) THEN "min" ELSE "line"

(* The return statement calculateFlow reaches: the two early returns, or   *)
(* the one after the division by (TempMax - TempMin).                      *)
flowPath(delta) ==
    IF RLe(delta, settings.TempMin) THEN "min"
    ELSE IF RGe(delta, settings.TempMax) THEN "max"
    ELSE "line"

calculateFlow(delta) ==
    IF flowPath(delta) = "min" THEN settings.DutyMin
    ELSE IF flowPath(delta) = "max" THEN settings.DutyMax
    ELSE LET a == RDiv(RSub(settings.DutyMax, settings.DutyMin),
                       RSub(settings.TempMax, settings.TempMin))
             b == RSub(settings.DutyMin, RMul(settings.TempMin, a))
             flow == RAdd(RMul(a, delta), b)
             capped == IF RGt(flow, settings.DutyMax) THEN settings.DutyMax ELSE flow
         IN  IF RLt(capped, settings.DutyMin) THEN settings.DutyMin ELSE capped

----------------------------------------------------------------------------
(* Actuator commands.  A command is one call of setEvokSingleValue; `fails` *)
(* is the set of devices whose HTTP request fails during the current tick. *)

setEvokSingleValue(dev, value, fails) ==
    [dev |-> dev, value |-> value, ok |-> dev \notin fails]

setFlow_neverInverts(value, fails) ==       \* without "if invertFlow"
    LET c == setEvokSingleValue("flow", value, fails)
    IN  [cmds |-> <<c>>, err |-> ~c.ok,
         flowRate |-> IF c.ok THEN value ELSE flowRate]

(* setFlow: the command it sends, whether it returned an error, and the    *)
(* flowRate gauge afterwards.                                              *)
setFlow(value, fails) ==
    LET v == IF invertFlow THEN RSub(R(FlowScale), value) ELSE value
        c == setEvokSingleValue("flow", v, fails)
    IN  [cmds |-> <<c>>, err |-> ~c.ok,
         flowRate |-> IF c.ok THEN v ELSE flowRate]

(* Slips of stop and start, each used to test one property below.         *)
stop_unguarded(fails) ==                    \* without "if circuitRunning"
    LET p == setEvokSingleValue("pump", R(0), fails)
        s == setEvokSingleValue("switch", R(0), fails)
        f == setFlow(settings.DutyMin, fails)
    IN  IF ~p.ok
        THEN [cmds |-> <<p>>, running |-> circuitRunning, slept |-> 0,
              flowRate |-> flowRate, runningMetric |-> circuitRunningMetric]
        ELSE IF ~s.ok
        THEN [cmds |-> <<p, s>>, running |-> circuitRunning, slept |-> SettleDelay,
              flowRate |-> flowRate, runningMetric |-> circuitRunningMetric]
        ELSE IF f.err
        THEN [cmds |-> <<p, s>> \o f.cmds, running |-> circuitRunning,
              slept |-> 2 * SettleDelay,
              flowRate |-> flowRate, runningMetric |-> circuitRunningMetric]
        ELSE [cmds |-> <<p, s>> \o f.cmds, running |-> FALSE,
              slept |-> 3 * SettleDelay,
              flowRate |-> f.flowRate, runningMetric |-> 0]

stop_keepsRunning(fails) ==                 \* without "circuitRunning = false"
    LET r == stop_unguarded(fails)
    IN  IF ~circuitRunning
        THEN [cmds |-> <<>>, running |-> circuitRunning, slept |-> 0,
              flowRate |-> flowRate, runningMetric |-> circuitRunningMetric]
        ELSE [r EXCEPT !.running = circuitRunning]

start_ignoresValveError(fails) ==           \* without the return after the valve error
    IF circuitRunning
    THEN [cmds |-> <<>>, running |-> circuitRunning, slept |-> 0,
          flowRate |-> flowRate, runningMetric |-> circuitRunningMetric]
    ELSE
      LET p == setEvokSingleValue("pump", R(1), fails)
          s == setEvokSingleValue("switch", R(1), fails)
      IN  IF ~p.ok
          THEN [cmds |-> <<p>>, running |-> circuitRunning, slept |-> 0,
                flowRate |-> flowRate, runningMetric |-> circuitRunningMetric]
          ELSE [cmds |-> <<p, s>>, running |-> TRUE, slept |-> 2 * SettleDelay,
                flowRate |-> flowRate, runningMetric |-> 1]

stop_valveFirst(fails) ==                   \* the valve closed before the pump is off
    IF ~circuitRunning
    THEN [cmds |-> <<>>, running |-> circuitRunning, slept |-> 0,
          flowRate |-> flowRate, runningMetric |-> circuitRunningMetric]
    ELSE
      LET p == setEvokSingleValue("pump", R(0), fails)
          s == setEvokSingleValue("switch", R(0), fails)
          f == setFlow(settings.DutyMin, fails)
      IN  IF ~s.ok
          THEN [cmds |-> <<s>>, running |-> circuitRunning, slept |-> 0,
                flowRate |-> flowRate, runningMetric |-> circuitRunningMetric]
          ELSE IF ~p.ok
          THEN [cmds |-> <<s, p>>, running |-> circuitRunning, slept |-> SettleDelay,
                flowRate |-> flowRate, runningMetric |-> circuitRunningMetric]
          ELSE IF f.err
          THEN [cmds |-> <<s, p>> \o f.cmds, running |-> circuitRunning,
                slept |-> 2 * SettleDelay,
                flowRate |-> flowRate, runningMetric |-> circuitRunningMetric]
          ELSE [cmds |-> <<s, p>> \o f.cmds, running |-> FALSE,
                slept |-> 3 * SettleDelay,
                flowRate |-> f.flowRate, runningMetric |-> 0]

start_valveFirst(fails) ==                  \* the valve opened before the pump runs
    IF circuitRunning
    THEN [cmds |-> <<>>, running |-> circuitRunning, slept |-> 0,
          flowRate |-> flowRate, runningMetric |-> circuitRunningMetric]
    ELSE
      LET p == setEvokSingleValue("pump", R(1), fails)
          s == setEvokSingleValue("switch", R(1), fails)
      IN  IF ~s.ok
          THEN [cmds |-> <<s>>, running |-> circuitRunning, slept |-> 0,
                flowRate |-> flowRate, runningMetric |-> circuitRunningMetric]
          ELSE IF ~p.ok
          THEN [cmds |-> <<s, p>>, running |-> circuitRunning, slept |-> SettleDelay,
                flowRate |-> flowRate, runningMetric |-> circuitRunningMetric]
          ELSE [cmds |-> <<s, p>>, running |-> TRUE, slept |-> 2 * SettleDelay,
                flowRate |-> flowRate, runningMetric |-> 1]

(* stop and start: the commands sent, the running flag and the gauges      *)
(* afterwards, and the seconds slept.                                      *)
stop(fails) ==
    IF ~circuitRunning
    THEN [cmds |-> <<>>, running |-> circuitRunning, slept |-> 0,
          flowRate |-> flowRate, runningMetric |-> circuitRunningMetric]
    ELSE
      LET p == setEvokSingleValue("pump", R(0), fails)
          s == setEvokSingleValue("switch", R(0), fails)
          f == setFlow(settings.DutyMin, fails)
      IN  IF ~p.ok
          THEN [cmds |-> <<p>>, running |-> circuitRunning, slept |-> 0,
                flowRate |-> flowRate, runningMetric |-> circuitRunningMetric]
          ELSE IF ~s.ok
          THEN [cmds |-> <<p, s>>, running |-> circuitRunning, slept |-> SettleDelay,
                flowRate |-> flowRate, runningMetric |-> circuitRunningMetric]
          ELSE IF f.err
          THEN [cmds |-> <<p, s>> \o f.cmds, running |-> circuitRunning,
                slept |-> 2 * SettleDelay,
                flowRate |-> flowRate, runningMetric |-> circuitRunningMetric]
          ELSE [cmds |-> <<p, s>> \o f.cmds, running |-> FALSE,
                slept |-> 3 * SettleDelay,
                flowRate |-> f.flowRate, runningMetric |-> 0]

start(fails) ==
    IF circuitRunning
    THEN [cmds |-> <<>>, running |-> circuitRunning, slept |-> 0,
          flowRate |-> flowRate, runningMetric |-> circuitRunningMetric]
    ELSE
      LET p == setEvokSingleValue("pump", R(1), fails)
          s == setEvokSingleValue("switch", R(1), fails)
      IN  IF ~p.ok
          THEN [cmds |-> <<p>>, running |-> circuitRunning, slept |-> 0,
                flowRate |-> flowRate, runningMetric |-> circuitRunningMetric]
          ELSE IF ~s.ok
          THEN [cmds |-> <<p, s>>, running |-> circuitRunning, slept |-> SettleDelay,
                flowRate |-> flowRate, runningMetric |-> circuitRunningMetric]
          ELSE [cmds |-> <<p, s>>, running |-> TRUE, slept |-> 2 * SettleDelay,
                flowRate |-> flowRate, runningMetric |-> 1]

(* A call that is not made.                                                *)
NoCall ==
    [cmds |-> <<>>, running |-> circuitRunning, slept |-> 0,
     flowRate |-> flowRate, runningMetric |-> circuitRunningMetric]

setStatus(s) == [Mode |-> s]

----------------------------------------------------------------------------
(* One iteration of the control loop of main(), entered at time t0 (the    *)
(* value stored in lastPass): everything the iteration leaves behind.      *)

LoopDelta ==
    RSub(RDiv(RAdd(sensors.SolarUp, sensors.SolarOut), R(2)), sensors.SolarIn)

Untouched ==
    [status |-> systemStatus, call |-> "none", res |-> NoCall, flowCmds |-> <<>>,
     flowRate |-> flowRate, failsafe |-> failsafeTotal, tankfull |-> tankfullTotal,
     heatescape |-> heatescapeTotal, reducedTill |-> reducedTill,
     reducedMode |-> reducedMode, reducedMetric |-> reducedModeMetric,
     branch |-> "none"]

GuardStop_clearsReduced(mode, branch, t0, fails) ==   \* resets the flag as Shutdown does
    LET c == stop(fails)
    IN  [Untouched EXCEPT !.status = setStatus(mode), !.call = "stop",
                          !.res = c, !.flowRate = c.flowRate, !.branch = branch,
                          !.reducedMode = FALSE, !.reducedMetric = 0]

GuardStop(mode, branch, t0, fails) ==
    LET c == stop(fails)
    IN  [Untouched EXCEPT !.status = setStatus(mode), !.call = "stop",
                          !.res = c, !.flowRate = c.flowRate, !.branch = branch]

Modulate_noPush(delta, t0, fails) ==        \* without "reducedTill = ..."
    LET harvest == RGe(delta, settings.SolarOn)
                   /\ RGt(sensors.SolarUp, sensors.SolarOut)
        c == IF harvest THEN start(fails) ELSE NoCall
        f == setFlow(calculateFlow(delta), fails)
    IN  [Untouched EXCEPT
            !.status = IF harvest THEN setStatus("working") ELSE systemStatus,
            !.call = IF harvest THEN "start" ELSE "none",
            !.res = c,
            !.flowCmds = f.cmds,
            !.flowRate = f.flowRate,
            !.branch = "modulating"]

Modulate_startsAboveSolarOff(delta, t0, fails) ==     \* without "delta >= SolarOn"
    LET harvest == RGt(sensors.SolarUp, sensors.SolarOut)
        c == IF harvest THEN start(fails) ELSE NoCall
        f == setFlow(calculateFlow(delta), fails)
    IN  [Untouched EXCEPT
            !.status = IF harvest THEN setStatus("working") ELSE systemStatus,
            !.call = IF harvest THEN "start" ELSE "none",
            !.res = c,
            !.flowCmds = f.cmds,
            !.flowRate = f.flowRate,
            !.reducedTill = t0 + c.slept + reductionDuration,
            !.branch = "modulating"]

Modulate_latchedAfterGuard(delta, t0, fails) ==       \* no start while a guard mode is reported
    LET harvest == /\ RGe(delta, settings.SolarOn)
                   /\ RGt(sensors.SolarUp, sensors.SolarOut)
                   /\ systemStatus.Mode \in {"startup", "working", "reduced mode", "stopped"}
        c == IF harvest THEN start(fails) ELSE NoCall
        f == setFlow(calculateFlow(delta), fails)
    IN  [Untouched EXCEPT
            !.status = IF harvest THEN setStatus("working") ELSE systemStatus,
            !.call = IF harvest THEN "start" ELSE "none",
            !.res = c,
            !.flowCmds = f.cmds,
            !.flowRate = f.flowRate,
            !.reducedTill = t0 + c.slept + reductionDuration,
            !.branch = "modulating"]

Modulate(delta, t0, fails) ==
    LET harvest == RGe(delta, settings.SolarOn)
                   /\ RGt(sensors.SolarUp, sensors.SolarOut)
        c == IF harvest THEN start(fails) ELSE NoCall
        f == setFlow(calculateFlow(delta), fails)
    IN  [Untouched EXCEPT
            !.status = IF harvest THEN setStatus("working") ELSE systemStatus,
            !.call = IF harvest THEN "start" ELSE "none",
            !.res = c,
            !.flowCmds = f.cmds,
            !.flowRate = f.flowRate,
            !.reducedTill = t0 + c.slept + reductionDuration,
            !.branch = "modulating"]

ReducedHold(t0, fails) ==
    IF reducedMode
    THEN [Untouched EXCEPT !.branch = "reduced"]
    ELSE LET f == setFlow(settings.DutyMin, fails)
         IN  [Untouched EXCEPT
                 !.status = setStatus("reduced mode"),
                 !.flowCmds = f.cmds,
                 !.flowRate = f.flowRate,
                 !.reducedMode = ~f.err,
                 !.reducedMetric = IF f.err THEN reducedModeMetric ELSE 1,
                 !.branch = "reduced"]

Shutdown_keepsReduced(t0, fails) ==         \* without "reducedMode = false"
    LET c == stop(fails)
    IN  [Untouched EXCEPT
            !.status = setStatus("stopped"),
            !.call = "stop",
            !.res = c,
            !.flowRate = c.flowRate,
            !.branch = "shutdown"]

Shutdown(t0, fails) ==
    LET c == stop(fails)
    IN  [Untouched EXCEPT
            !.reducedMode = FALSE,
            !.reducedMetric = 0,
            !.status = setStatus("stopped"),
            !.call = "stop",
            !.res = c,
            !.flowRate = c.flowRate,
            !.branch = "shutdown"]

(* The rest of an iteration once the critical and tank guards have passed. *)
AfterTankGuard(t0, fails) ==
    LET delta == LoopDelta
    IN  IF RLt(delta, R(0))
        THEN [GuardStop("heat escape prevention mode", "heatescape", t0, fails)
                 EXCEPT !.heatescape = heatescapeTotal + 1]
        ELSE IF RGt(delta, settings.SolarOff)
        THEN Modulate(delta, t0, fails)
        ELSE IF t0 < reducedTill
        THEN ReducedHold(t0, fails)
        ELSE Shutdown(t0, fails)

Iteration_tankFirst(t0, fails) ==           \* the tank guard ahead of the critical one
    IF RGt(sensors.TankUp, settings.TankMax)
    THEN [GuardStop("tank filled", "tankfull", t0, fails)
             EXCEPT !.tankfull = tankfullTotal + 1]
    ELSE IF RGe(sensors.SolarUp, settings.SolarCritical)
    THEN [GuardStop("failsafe shutdown", "critical", t0, fails)
             EXCEPT !.failsafe = failsafeTotal + 1]
    ELSE AfterTankGuard(t0, fails)

Iteration_countsStops(t0, fails) ==         \* failsafeTotal.Inc() moved into stop()
    IF RGe(sensors.SolarUp, settings.SolarCritical)
    THEN [GuardStop("failsafe shutdown", "critical", t0, fails)
             EXCEPT !.failsafe = IF circuitRunning THEN failsafeTotal + 1
                                  ELSE failsafeTotal]
    ELSE IF RGt(sensors.TankUp, settings.TankMax)
    THEN [GuardStop("tank filled", "tankfull", t0, fails)
             EXCEPT !.tankfull = tankfullTotal + 1]
    ELSE AfterTankGuard(t0, fails)

Iteration_heatEscapeFirst(t0, fails) ==     \* "delta < 0" ahead of the tank guard
    IF RGe(sensors.SolarUp, settings.SolarCritical)
    THEN [GuardStop("failsafe shutdown", "critical", t0, fails)
             EXCEPT !.failsafe = failsafeTotal + 1]
    ELSE IF RLt(LoopDelta, R(0))
    THEN [GuardStop("heat escape prevention mode", "heatescape", t0, fails)
             EXCEPT !.heatescape = heatescapeTotal + 1]
    ELSE IF RGt(sensors.TankUp, settings.TankMax)
    THEN [GuardStop("tank filled", "tankfull", t0, fails)
             EXCEPT !.tankfull = tankfullTotal + 1]
    ELSE AfterTankGuard(t0, fails)

Iteration_holdsAtDeadline(t0, fails) ==     \* !After(reducedTill) instead of Before(reducedTill)
    LET delta == LoopDelta
    IN  IF RGe(sensors.SolarUp, settings.SolarCritical)
        THEN [GuardStop("failsafe shutdown", "critical", t0, fails)
                 EXCEPT !.failsafe = failsafeTotal + 1]
        ELSE IF RGt(sensors.TankUp, settings.TankMax)
        THEN [GuardStop("tank filled", "tankfull", t0, fails)
                 EXCEPT !.tankfull = tankfullTotal + 1]
        ELSE IF RLt(delta, R(0))
        THEN [GuardStop("heat escape prevention mode", "heatescape", t0, fails)
                 EXCEPT !.heatescape = heatescapeTotal + 1]
        ELSE IF RGt(delta, settings.SolarOff)
        THEN Modulate(delta, t0, fails)
        ELSE IF t0 <= reducedTill
        THEN ReducedHold(t0, fails)
        ELSE Shutdown(t0, fails)

Iteration(t0, fails) ==
    LET delta == LoopDelta
    IN  IF RGe(sensors.SolarUp, settings.SolarCritical)
        THEN [GuardStop("failsafe shutdown", "critical", t0, fails)
                 EXCEPT !.failsafe = failsafeTotal + 1]
        ELSE IF RGt(sensors.TankUp, settings.TankMax)
        THEN [GuardStop("tank filled", "tankfull", t0, fails)
                 EXCEPT !.tankfull = tankfullTotal + 1]
        ELSE IF RLt(delta, R(0))
        THEN [GuardStop("heat escape prevention mode", "heatescape", t0, fails)
                 EXCEPT !.heatescape = heatescapeTotal + 1]
        ELSE IF RGt(delta, settings.SolarOff)
        THEN Modulate(delta, t0, fails)
        ELSE IF t0 < reducedTill
        THEN ReducedHold(t0, fails)
        ELSE Shutdown(t0, fails)

(* The pump and switch commands of a call, folded into the record of the   *)
(* last command emitted to each: `changed` tells whether circuitRunning    *)
(* has changed since, `aborted` whether the call that emitted it ended on  *)
(* a failed command, `delivered` is the value of the last command the      *)
(* device accepted (-1: none yet).                                         *)
Emission(prev, cmds, flipped) ==
    [dev \in {"pump", "switch"} |->
        LET mine == {i \in DOMAIN cmds : cmds[i].dev = dev}
        IN  IF mine = {}
            THEN [prev[dev] EXCEPT !.changed = prev[dev].changed \/ flipped]
            ELSE LET i == CHOOSE j \in mine : TRUE
                 IN  [value |-> cmds[i].value.n, changed |-> flipped,
                      aborted |-> \E j \in DOMAIN cmds : ~cmds[j].ok,
                      delivered |-> IF cmds[i].ok THEN cmds[i].value.n
                                    ELSE prev[dev].delivered]]

Rebase(t, origin) == t - origin

Elapsed(since, d) ==
    IF since + d > reductionDuration THEN reductionDuration ELSE since + d

httpHealthCheck_inclusive(now) ==           \* !Before(now) instead of After(now)
    IF lastPass + HealthTimeout >= now THEN 200 ELSE 500

(* The /health handler, asked when the clock reads `now`.                  *)
httpHealthCheck(now) ==
    IF lastPass + HealthTimeout > now THEN 200 ELSE 500

NoHealth == [code |-> 0, at |-> 0]

(* The loop is between two iterations.                                     *)
Idle == [pc |-> "idle"]

AfterPass_fatalOnError(r) ==                \* log.Fatalln where the code has log.Println
    IF \E i \in DOMAIN (r.res.cmds \o r.flowCmds) : ~(r.res.cmds \o r.flowCmds)[i].ok
    THEN [boot EXCEPT !.pc = "fatal"]
    ELSE boot

(* Where main() is after an iteration that did `r`: every error of an      *)
(* actuator command or of the status publication is logged, and each       *)
(* branch of the loop body ends in `continue` or at the end of the body.   *)
AfterPass(r) == boot

(* What an iteration reads from the sensors when it begins.                *)
Seen ==
    [delta |-> LoopDelta,
     critical |-> RGe(sensors.SolarUp, settings.SolarCritical),
     tankfull |-> RGt(sensors.TankUp, settings.TankMax)]

(* The writes of one pass of the loop whose iteration did `r`: the clock   *)
(* is `gap` seconds past the end of the previous pass when the pass        *)
(* starts.  Followed for MaxTicks passes and while no guard counter        *)
(* exceeds MaxCount.  A pass starts no earlier than the last /health       *)
(* request was answered.                                                   *)
Pass(gap, r, seen) ==
    LET t0  == gap
        end == t0 + r.res.slept
    IN  /\ boot.pc = "loop"
        /\ health.at <= gap
        /\ outcome.tick < MaxTicks
        /\ r.failsafe <= MaxCount
        /\ r.tankfull <= MaxCount
        /\ r.heatescape <= MaxCount
        /\ lastPass' = Rebase(t0, end)
        /\ systemStatus' = r.status
        /\ circuitRunning' = r.res.running
        /\ circuitRunningMetric' = r.res.runningMetric
        /\ flowRate' = r.flowRate
        /\ failsafeTotal' = r.failsafe
        /\ tankfullTotal' = r.tankfull
        /\ heatescapeTotal' = r.heatescape
        /\ reducedTill' = IF r.reducedTill > end THEN Rebase(r.reducedTill, end) ELSE 0
        /\ reducedMode' = r.reducedMode
        /\ reducedModeMetric' = r.reducedMetric
        /\ outcome' = [tick |-> outcome.tick + 1, branch |-> r.branch, call |-> r.call,
                       callCmds |-> r.res.cmds, flowCmds |-> r.flowCmds,
                       delta |-> seen.delta,
                       critical |-> seen.critical,
                       tankfull |-> seen.tankfull,
                       preRunning |-> circuitRunning,
                       preReduced |-> reducedMode,
                       preEmitted |-> emitted,
                       sinceModulating |-> Elapsed(outcome.untilNow, t0),
                       untilNow |-> IF r.branch = "modulating" THEN 0
                                    ELSE Elapsed(outcome.untilNow, end)]
        /\ emitted' = Emission(emitted, r.res.cmds, r.res.running # circuitRunning)
        /\ health' = NoHealth
        /\ boot' = AfterPass(r)
        /\ UNCHANGED <<settings, sensors, invertFlow, probe>>

(* One pass of the loop during which neither ingestion path delivers       *)
(* anything: the actuator commands to the devices in `fails` return an     *)
(* error.                                                                  *)
Tick(gap, fails) ==
    /\ inTick = Idle
    /\ Pass(gap, Iteration(gap, fails), Seen)
    /\ UNCHANGED <<inTick, solarEmergency, emergencyTotal>>

(* A pass that sleeps in start() or stop(), up to its first settle delay:  *)
(* delta is computed and the branch is chosen; the ingestion paths run     *)
(* until TickEnd.                                                          *)
TickBegin(gap, fails) ==
    LET r == Iteration(gap, fails)
    IN  /\ boot.pc = "loop"
        /\ inTick = Idle
        /\ health.at <= gap
        /\ outcome.tick < MaxTicks
        /\ r.failsafe <= MaxCount
        /\ r.tankfull <= MaxCount
        /\ r.heatescape <= MaxCount
        /\ r.res.slept > 0
        /\ inTick' = [pc |-> "settle", gap |-> gap, fails |-> fails, r |-> r,
                      seen |-> Seen]
        /\ UNCHANGED <<settings, sensors, circuitRunning, invertFlow, lastPass,
                       systemStatus, reducedTill, reducedMode, failsafeTotal,
                       tankfullTotal, heatescapeTotal, reducedModeMetric, flowRate,
                       circuitRunningMetric, outcome, emitted, boot, health, probe,
                       solarEmergency, emergencyTotal>>

(* What the iteration begun as `b` does after its settle delays: the flow  *)
(* command that follows start() is calculateFlow(delta) with the local     *)
(* delta and the settings as they are now, and the flow command at the end *)
(* of stop() carries the DutyMin of now.                                   *)
Late(b) ==
    IF b.r.branch = "modulating"
    THEN LET f == setFlow(calculateFlow(b.seen.delta), b.fails)
         IN  [b.r EXCEPT !.flowCmds = f.cmds, !.flowRate = f.flowRate]
    ELSE IF b.r.call = "stop" /\ Len(b.r.res.cmds) = 3
    THEN LET f == setFlow(settings.DutyMin, b.fails)
             c == [b.r.res EXCEPT
                      !.cmds = SubSeq(b.r.res.cmds, 1, 2) \o f.cmds,
                      !.flowRate = IF f.err THEN flowRate ELSE f.flowRate]
         IN  [b.r EXCEPT !.res = c, !.flowRate = c.flowRate]
    ELSE b.r

(* The rest of the pass begun by TickBegin.                                *)
TickEnd ==
    /\ inTick.pc = "settle"
    /\ Pass(inTick.gap, Late(inTick), inTick.seen)
    /\ inTick' = Idle
    /\ UNCHANGED <<solarEmergency, emergencyTotal>>

----------------------------------------------------------------------------
(* Sensor ingestion: parseEvokData over the devices of one websocket       *)
(* payload.                                                                *)

ApplyDevice(sv, msg) ==
    IF msg.circuit = SensorId.SolarUp.circuit /\ msg.dev = SensorId.SolarUp.dev
    THEN [sv EXCEPT !.SolarUp = calculateTemperature(msg.value)]
    ELSE IF msg.dev # "temp" THEN sv
    ELSE IF msg.circuit = SensorId.SolarIn.circuit
    THEN [sv EXCEPT !.SolarIn = msg.value]
    ELSE IF msg.circuit = SensorId.SolarOut.circuit
    THEN [sv EXCEPT !.SolarOut = msg.value]
    ELSE IF msg.circuit = SensorId.TankUp.circuit
    THEN [sv EXCEPT !.TankUp = msg.value]
    ELSE sv

RECURSIVE parseEvokData(_, _)
parseEvokData(sv, data) ==
    IF data = <<>> THEN sv
    ELSE parseEvokData(ApplyDevice(sv, Head(data)), Tail(data))

Device(dev, circuit, value) == [dev |-> dev, circuit |-> circuit, value |-> value]

(* A payload carrying the panel voltage and the three 1-wire temperatures. *)
Reading(volts, tin, tout, tank) ==
    << Device("ai", "1", volts), Device("temp", "28IN", R(tin)),
       Device("temp", "28OUT", R(tout)), Device("temp", "28TANK", R(tank)) >>

(* Panel voltages: 2.76 V = 46 C, 3.12 V = 52 C, 5.7 V = 95 C.             *)
EvokPayloads ==
    { Reading(Rat(57, 10), 42, 44, 70),     \* critical and tank full
      Reading(Rat(57, 10), 42, 44, 50),     \* critical
      Reading(Rat(78, 25), 42, 44, 70),     \* tank full
      Reading(Rat(69, 25), 42, 44, 50),     \* delta 3
      Reading(Rat(78, 25), 42, 44, 50),     \* delta 6
      << Device("ai", "2", R(7)), Device("input", "28IN", R(1)),
         Device("temp", "28XX", R(99)) >> } \* devices of other circuits

ParseEvok(data) ==
    /\ boot.pc = "loop"
    /\ sensors' = parseEvokData(sensors, data)
    /\ UNCHANGED <<settings, circuitRunning, invertFlow, lastPass, systemStatus,
                   reducedTill, reducedMode, failsafeTotal, tankfullTotal,
                   heatescapeTotal, reducedModeMetric, flowRate,
                   circuitRunningMetric, outcome, emitted, boot, health, probe,
                   inTick, solarEmergency, emergencyTotal>>

----------------------------------------------------------------------------
(* Settings ingestion: onMessage for one MQTT message.                     *)

ParseFloat(payload) ==
    CASE payload = "3"   -> [err |-> FALSE, value |-> R(3)]
      [] payload = "5"   -> [err |-> FALSE, value |-> R(5)]
      [] payload = "9"   -> [err |-> FALSE, value |-> R(9)]
      [] payload = "1.8" -> [err |-> FALSE, value |-> Rat(18, 10)]
      [] OTHER           -> [err |-> TRUE, value |-> R(0)]

onMessage(st, topic, payload) ==
    LET p == ParseFloat(payload)
    IN  IF p.err THEN st
        ELSE IF topic = Topics.SolarCritical THEN [st EXCEPT !.SolarCritical = p.value]
        ELSE IF topic = Topics.SolarOn  THEN [st EXCEPT !.SolarOn = p.value]
        ELSE IF topic = Topics.SolarOff THEN [st EXCEPT !.SolarOff = p.value]
        ELSE IF topic = Topics.TankMax  THEN [st EXCEPT !.TankMax = p.value]
        ELSE IF topic = Topics.DutyMin  THEN [st EXCEPT !.DutyMin = p.value]
        ELSE IF topic = Topics.DutyMax  THEN [st EXCEPT !.DutyMax = p.value]
        ELSE IF topic = Topics.TempMin  THEN [st EXCEPT !.TempMin = p.value]
        ELSE IF topic = Topics.TempMax  THEN [st EXCEPT !.TempMax = p.value]
        ELSE st

(* Messages of the broker during normal operation: a retained setting     *)
(* published again with the value already loaded, a payload that is not a  *)
(* number, and a topic that is no setting.                                 *)
MqttMessages ==
    { <<Topics.TempMax, "9">>, <<Topics.SolarOff, "off">>, <<"solar/status", "3">> }

OnMessage_resetsWindow(m) ==                \* the callback also clears the hold window
    /\ boot.pc \in {"reset", "loop"}
    /\ settings' = onMessage(settings, m[1], m[2])
    /\ reducedTill' = 0
    /\ UNCHANGED <<sensors, circuitRunning, invertFlow, lastPass, systemStatus,
                   reducedMode, failsafeTotal, tankfullTotal,
                   heatescapeTotal, reducedModeMetric, flowRate,
                   circuitRunningMetric, outcome, emitted, boot, health, probe,
                   inTick, solarEmergency, emergencyTotal>>

OnMessage(m) ==
    /\ boot.pc \in {"reset", "loop"}
    /\ settings' = onMessage(settings, m[1], m[2])
    /\ UNCHANGED <<sensors, circuitRunning, invertFlow, lastPass, systemStatus,
                   reducedTill, reducedMode, failsafeTotal, tankfullTotal,
                   heatescapeTotal, reducedModeMetric, flowRate,
                   circuitRunningMetric, outcome, emitted, boot, health, probe,
                   inTick, solarEmergency, emergencyTotal>>

----------------------------------------------------------------------------
(* The state when main() enters its loop: init() has loaded the            *)
(* configuration, read each sensor once over REST (the panel's reading is  *)
(* the analog input's voltage), set the status to "startup" and called     *)
(* stop("SYSTEM RESET") with circuitRunning false.  The -invert flag is   *)
(* at its default.                                                         *)

NoProbe == [done |-> FALSE, d1 |-> R(0), d2 |-> R(0), f1 |-> R(0), f2 |-> R(0)]

SensorNames == {"SolarUp", "SolarIn", "SolarOut", "TankUp"}

InLoop == [pc |-> "loop", read |-> SensorNames]

InitSensors ==
    /\ sensors = [SolarUp |-> Rat(78, 25), SolarIn |-> R(42),
                  SolarOut |-> R(44), TankUp |-> R(50)]
    /\ invertFlow = FALSE
    /\ boot = InLoop

InitRest ==
    /\ circuitRunning = FALSE
    /\ lastPass = ZeroTime
    /\ health = NoHealth
    /\ systemStatus = setStatus("startup")
    /\ reducedTill = 0
    /\ reducedMode = FALSE
    /\ failsafeTotal = 0
    /\ tankfullTotal = 0
    /\ heatescapeTotal = 0
    /\ reducedModeMetric = 0
    /\ flowRate = R(0)
    /\ circuitRunningMetric = 0
    /\ outcome = [tick |-> 0, branch |-> "none", call |-> "none", callCmds |-> <<>>,
                  flowCmds |-> <<>>, delta |-> R(0), critical |-> FALSE,
                  tankfull |-> FALSE, preRunning |-> FALSE, preReduced |-> FALSE,
                  preEmitted |-> [dev \in {"pump", "switch"} |->
                        [value |-> -1, changed |-> FALSE, aborted |-> FALSE,
                         delivered |-> -1]],
                  sinceModulating |-> reductionDuration,
                  untilNow |-> reductionDuration]
    /\ emitted = [dev \in {"pump", "switch"} |->
                        [value |-> -1, changed |-> FALSE, aborted |-> FALSE,
                         delivered |-> -1]]
    /\ probe = NoProbe
    /\ inTick = Idle
    /\ solarEmergency = R(0)
    /\ emergencyTotal = 0

Init ==
    /\ settings = ConfigSettings
    /\ InitSensors
    /\ InitRest

Next ==
    \/ \E gap \in TickGaps, fails \in SUBSET Devices : Tick(gap, fails)
    \/ \E data \in EvokPayloads : ParseEvok(data)
    \/ \E m \in MqttMessages : OnMessage(m)

Spec == Init /\ [][Next]_vars

----------------------------------------------------------------------------
(* Startup: init() reads the four sensors over REST one after the other    *)
(* (log.Fatalf on an error), connects to the broker (settings messages are *)
(* handled from then on), sets the status and calls stop("SYSTEM RESET");  *)
(* main() then starts the HTTP server and the websocket reader and enters  *)
(* the loop.  boot.pc names the sensor to be read next, then "connect",    *)
(* "reset", and "loop" or "fatal"; boot.read collects the sensors whose    *)
(* value came from a REST reply.                                           *)

NextPc(name) ==
    CASE name = "SolarUp"  -> "SolarIn"
      [] name = "SolarIn"  -> "SolarOut"
      [] name = "SolarOut" -> "TankUp"
      [] name = "TankUp"   -> "connect"

(* What getSingleEvokValue returns: the value of the reply, or an error.   *)
getSingleEvokValue(name, reply) ==
    IF reply.fails THEN [value |-> R(0), err |-> TRUE]
    ELSE [value |-> reply.value, err |-> FALSE]

RestReplies ==
    { [fails |-> TRUE, value |-> R(0)],
      [fails |-> FALSE, value |-> Rat(78, 25)],
      [fails |-> FALSE, value |-> R(44)] }

initSensor_ignoresError(name, reply) ==     \* without the log.Fatalf on err
    LET r == getSingleEvokValue(name, reply)
    IN  IF r.err
        THEN [sensors |-> sensors, boot |-> [boot EXCEPT !.pc = NextPc(name)]]
        ELSE [sensors |-> [sensors EXCEPT ![name] = r.value],
              boot |-> [pc |-> NextPc(name), read |-> boot.read \cup {name}]]

initSensor(name, reply) ==
    LET r == getSingleEvokValue(name, reply)
    IN  IF r.err
        THEN [sensors |-> sensors, boot |-> [boot EXCEPT !.pc = "fatal"]]
        ELSE [sensors |-> [sensors EXCEPT ![name] = r.value],
              boot |-> [pc |-> NextPc(name), read |-> boot.read \cup {name}]]

GetSensor(reply) ==
    /\ boot.pc \in SensorNames
    /\ LET r == initSensor(boot.pc, reply)
       IN  sensors' = r.sensors /\ boot' = r.boot
    /\ UNCHANGED <<settings, circuitRunning, invertFlow, lastPass, systemStatus,
                   reducedTill, reducedMode, failsafeTotal, tankfullTotal,
                   heatescapeTotal, reducedModeMetric, flowRate,
                   circuitRunningMetric, outcome, emitted, health, probe, inTick,
                   solarEmergency, emergencyTotal>>

Connect ==
    /\ boot.pc = "connect"
    /\ boot' = [boot EXCEPT !.pc = "reset"]
    /\ UNCHANGED <<settings, sensors, circuitRunning, invertFlow, lastPass,
                   systemStatus, reducedTill, reducedMode, failsafeTotal,
                   tankfullTotal, heatescapeTotal, reducedModeMetric, flowRate,
                   circuitRunningMetric, outcome, emitted, health, probe, inTick,
                   solarEmergency, emergencyTotal>>

Reset(fails) ==
    LET c == stop(fails)
    IN  /\ boot.pc = "reset"
        /\ systemStatus' = setStatus("startup")
        /\ circuitRunning' = c.running
        /\ circuitRunningMetric' = c.runningMetric
        /\ flowRate' = c.flowRate
        /\ emitted' = Emission(emitted, c.cmds, c.running # circuitRunning)
        /\ reducedTill' = 0
        /\ reducedMode' = FALSE
        /\ boot' = [boot EXCEPT !.pc = "loop"]
        /\ UNCHANGED <<settings, sensors, invertFlow, lastPass, failsafeTotal,
                       tankfullTotal, heatescapeTotal, reducedModeMetric,
                       outcome, health, probe, inTick,
                       solarEmergency, emergencyTotal>>

(* A /health request answered when the clock reads `now` (seconds since    *)
(* the end of the last pass, or since the loop was entered).               *)
HealthProbeTimes == {0, HealthTimeout - 3, HealthTimeout}

HttpHealthCheck(now) ==
    /\ boot.pc = "loop"
    /\ now >= health.at
    /\ health' = [code |-> httpHealthCheck(now), at |-> now]
    /\ UNCHANGED <<settings, sensors, circuitRunning, invertFlow, lastPass,
                   systemStatus, reducedTill, reducedMode, failsafeTotal,
                   tankfullTotal, heatescapeTotal, reducedModeMetric, flowRate,
                   circuitRunningMetric, outcome, emitted, boot, probe, inTick,
                   solarEmergency, emergencyTotal>>

(* The program from the start of init(): the configuration file holds the  *)
(* example curve or one with TempMax = TempMin, the -invert flag is set or *)
(* not, the sensors hold the values of the configuration file (none).      *)
StartConfigs == {ConfigSettings, [ConfigSettings EXCEPT !.TempMax = R(5)]}

(* Panel voltages: 1.8 V = 30 C, 2.76 V = 46 C, 3.06 V = 51 C, 3.12 V = 52 C. *)
StartPayloads ==
    { Reading(Rat(78, 25), 42, 44, 50),     \* delta 6
      Reading(Rat(153, 50), 42, 44, 50),    \* delta 5.5, between SolarOff and SolarOn
      Reading(Rat(69, 25), 42, 44, 50),     \* delta 3
      Reading(Rat(69, 25), 42, 60, 50),     \* delta 11, panel below the outlet
      Reading(Rat(9, 5), 42, 44, 50) }      \* delta -5

StartFails == {{}, {"switch"}}

StartMessages == { <<Topics.TempMax, "5">>, <<Topics.TempMax, "9">> }

InitStart ==
    /\ settings \in StartConfigs
    /\ sensors = [name \in SensorNames |-> R(0)]
    /\ invertFlow \in BOOLEAN
    /\ boot = [pc |-> "SolarUp", read |-> {}]
    /\ InitRest

NextStart ==
    \/ \E reply \in RestReplies : GetSensor(reply)
    \/ Connect
    \/ \E fails \in SUBSET Devices : Reset(fails)
    \/ \E gap \in TickGaps, fails \in StartFails : Tick(gap, fails)
    \/ \E data \in StartPayloads : ParseEvok(data)
    \/ \E m \in StartMessages : OnMessage(m)
    \/ \E now \in HealthProbeTimes : HttpHealthCheck(now)

SpecStart == InitStart /\ [][NextStart]_vars

----------------------------------------------------------------------------
(* calculateFlow on its own: the flow curve is drawn from the values a     *)
(* configuration file can hold (valid curves and degenerate ones), and     *)
(* the function is evaluated at pairs of deltas.                           *)

FlowCurves ==
    { [ConfigSettings EXCEPT !.TempMin = tmin, !.TempMax = tmax,
                             !.DutyMin = dmin, !.DutyMax = dmax] :
        tmin \in {R(-2), R(5), R(7)}, tmax \in {R(5), Rat(13, 2), R(9)},
        dmin \in {R(0), Rat(18, 10)}, dmax \in {R(1), Rat(18, 10), R(3)} }

ProbeDeltas ==
    { R(-1000), R(-2), R(0), R(5), Rat(11, 2), R(6), R(7), Rat(17, 2), R(9), R(1000) }

Probe(d1, d2) ==
    /\ ~probe.done
    /\ probe' = [done |-> TRUE, d1 |-> d1, d2 |-> d2,
                 f1 |-> calculateFlow(d1), f2 |-> calculateFlow(d2)]
    /\ UNCHANGED <<settings, sensors, circuitRunning, invertFlow, lastPass,
                   systemStatus, reducedTill, reducedMode, failsafeTotal,
                   tankfullTotal, heatescapeTotal, reducedModeMetric, flowRate,
                   circuitRunningMetric, outcome, emitted, boot, health, inTick,
                   solarEmergency, emergencyTotal>>

InitFlow ==
    /\ settings \in FlowCurves
    /\ InitSensors
    /\ InitRest

NextFlow == \E d1 \in ProbeDeltas, d2 \in ProbeDeltas : Probe(d1, d2)

SpecFlow == InitFlow /\ [][NextFlow]_vars

ValidCurve ==
    /\ RGt(settings.TempMax, settings.TempMin)
    /\ RGe(settings.DutyMax, settings.DutyMin)

----------------------------------------------------------------------------
(* Properties of calculateFlow, checked under SpecFlow.                    *)

ExampleCurve ==
    /\ settings.TempMin = R(5) /\ settings.TempMax = R(9)
    /\ settings.DutyMin = Rat(18, 10) /\ settings.DutyMax = R(3)

InRange(f) == RLe(settings.DutyMin, f) /\ RLe(f, settings.DutyMax)

(* C1: for every valid flow curve (TempMax > TempMin, DutyMax >= DutyMin)  *)
(* and every delta, far outside [TempMin, TempMax] included, calculateFlow *)
(* returns a value v with DutyMin <= v <= DutyMax.                         *)
C1_FlowWithinDutyRange ==
    (probe.done /\ ValidCurve) => (InRange(probe.f1) /\ InRange(probe.f2))

C1_Witness ==
    /\ probe.done /\ ValidCurve
    /\ probe.d1 = R(-1000) /\ probe.d2 = R(1000)
    /\ probe.f1 = settings.DutyMin /\ probe.f2 = settings.DutyMax

(* C2: for a fixed valid flow curve and d1 <= d2,                          *)
(* calculateFlow(d1) <= calculateFlow(d2).                                 *)
C2_FlowMonotonic ==
    (probe.done /\ ValidCurve /\ RLe(probe.d1, probe.d2))
        => RLe(probe.f1, probe.f2)

C2_Witness ==
    /\ probe.done /\ ValidCurve
    /\ RLt(settings.TempMin, probe.d1) /\ RLt(probe.d1, probe.d2)
    /\ RLt(probe.d2, settings.TempMax)
    /\ RLt(probe.f1, probe.f2)

(* C3: for every valid flow curve, calculateFlow(TempMin) is exactly       *)
(* DutyMin and calculateFlow(TempMax) is exactly DutyMax.                  *)
C3_FlowAtEndpoints ==
    (probe.done /\ ValidCurve) =>
        /\ (probe.d1 = settings.TempMin => probe.f1 = settings.DutyMin)
        /\ (probe.d2 = settings.TempMax => probe.f2 = settings.DutyMax)

C3_Witness ==
    /\ probe.done /\ ValidCurve /\ RLt(settings.DutyMin, settings.DutyMax)
    /\ probe.d1 = settings.TempMin /\ probe.d2 = settings.TempMax

(* C4: for TempMin < delta < TempMax, calculateFlow returns                *)
(* DutyMin + (DutyMax - DutyMin)/(TempMax - TempMin) * (delta - TempMin);  *)
(* with TempMin = 5, TempMax = 9, DutyMin = 1.8, DutyMax = 3.0 the delta 7 *)
(* maps to 2.4.  (In exact arithmetic: the program's a*delta + b is this   *)
(* value up to float64 rounding.)                                          *)
LinearInterpolation(delta) ==
    RAdd(settings.DutyMin,
         RMul(RDiv(RSub(settings.DutyMax, settings.DutyMin),
                   RSub(settings.TempMax, settings.TempMin)),
              RSub(delta, settings.TempMin)))

----------------------------------------------------------------------------
(* Properties of the control loop, checked under Spec.                     *)

TickStep == outcome'.tick = outcome.tick + 1

Failed(cmds) == \E i \in DOMAIN cmds : ~cmds[i].ok

PumpOrSwitch(cmds) == {i \in DOMAIN cmds : cmds[i].dev \in {"pump", "switch"}}

(* A pump or switch command belongs to a transition: ON is sent only by a  *)
(* call entered with the circuit stopped, OFF only by one entered with it  *)
(* running.                                                                *)
OnTransition(c) == (c.value = R(1)) = ~outcome.preRunning

(* C5 as claimed: pump and valve commands are emitted only on a transition *)
(* of the running state, and along any sequence of ticks (ticks with a     *)
(* failed command included) the same command is never emitted again while  *)
(* circuitRunning has not changed since it was last emitted.               *)
C5_NeverRepeatedWhileUnchanged ==
    \A i \in PumpOrSwitch(outcome.callCmds) :
        LET c == outcome.callCmds[i]
            last == outcome.preEmitted[c.dev]
        IN  /\ OnTransition(c)
            /\ last.value = c.value.n => last.changed

(* C5 as amended: pump and valve commands are emitted only by a start()    *)
(* entered with the circuit stopped or a stop() entered with it running,   *)
(* and the same command is not emitted again while circuitRunning has not  *)
(* changed since it was last emitted, unless the call that emitted it was  *)
(* aborted by a failed actuator command.                                   *)
C5_RepeatedOnlyAfterAbort ==
    \A i \in PumpOrSwitch(outcome.callCmds) :
        LET c == outcome.callCmds[i]
            last == outcome.preEmitted[c.dev]
        IN  /\ OnTransition(c)
            /\ last.value = c.value.n => (last.changed \/ last.aborted)

C5_Witness ==
    /\ outcome.call = "stop"
    /\ outcome.callCmds # <<>>
    /\ outcome.preEmitted["pump"].value = 0
    /\ ~outcome.preEmitted["pump"].changed
    /\ outcome.preEmitted["pump"].aborted

(* C6: a stop() that follows a completed stop(), and a start() that        *)
(* follows a completed start(), emits no command and changes no state.     *)
C6_SecondCallIsNoOp ==
    /\ (outcome.call = "stop" /\ Len(outcome.callCmds) = 3
                              /\ ~Failed(outcome.callCmds))
          => \A fails \in SUBSET Devices : stop(fails) = NoCall
    /\ (outcome.call = "start" /\ Len(outcome.callCmds) = 2
                               /\ ~Failed(outcome.callCmds))
          => \A fails \in SUBSET Devices : start(fails) = NoCall
    /\ (outcome.call = "stop" /\ ~outcome.preRunning)
          => (outcome.callCmds = <<>> /\ ~circuitRunning /\ lastPass = 0)
    /\ (outcome.call = "start" /\ outcome.preRunning)
          => (outcome.callCmds = <<>> /\ circuitRunning)

C6_Witness ==
    /\ outcome.call = "stop" /\ ~outcome.preRunning
    /\ outcome.preEmitted["pump"].value = 0
    /\ outcome.preEmitted["pump"].changed
    /\ ~outcome.preEmitted["pump"].aborted
    /\ outcome.callCmds = <<>>

(* C7: when a command of start() or stop() fails, it is the last step of   *)
(* that call (no later command, no later settle delay) and circuitRunning  *)
(* keeps the value it had before the call.                                 *)
C7_FailureAbortsTransition ==
    (outcome.call # "none" /\ Failed(outcome.callCmds)) =>
        /\ \A i \in DOMAIN outcome.callCmds :
              ~outcome.callCmds[i].ok => i = Len(outcome.callCmds)
        /\ lastPass = -((Len(outcome.callCmds) - 1) * SettleDelay)
        /\ circuitRunning = outcome.preRunning

C7_Witness ==
    /\ outcome.call = "start"
    /\ Len(outcome.callCmds) = 2
    /\ outcome.callCmds[1].ok /\ ~outcome.callCmds[2].ok
    /\ ~circuitRunning

Critical == RGe(sensors.SolarUp, settings.SolarCritical)
TankFull == RGt(sensors.TankUp, settings.TankMax)

(* C8: on any tick where panelTemp >= SolarCritical and tankTemp > TankMax *)
(* both hold, the reported mode is "failsafe shutdown" and only the        *)
(* failsafe counter is incremented; the tank-full and heat-escape counters *)
(* are unchanged on that tick.                                             *)
C8_CriticalBeforeTankFull ==
    [][(TickStep /\ Critical /\ TankFull) =>
          /\ systemStatus'.Mode = "failsafe shutdown"
          /\ outcome'.branch = "critical"
          /\ failsafeTotal' = failsafeTotal + 1
          /\ tankfullTotal' = tankfullTotal
          /\ heatescapeTotal' = heatescapeTotal]_vars

C8_Witness ==
    /\ outcome.critical /\ outcome.tankfull
    /\ systemStatus.Mode = "failsafe shutdown"
    /\ failsafeTotal = 1 /\ tankfullTotal = 1

(* C9: on every tick where panelTemp >= SolarCritical the loop reports     *)
(* "failsafe shutdown", calls stop() and increments the failsafe counter   *)
(* by exactly 1, whether the circuit was running or already stopped: a     *)
(* running circuit gets pump OFF as the first command and is stopped after *)
(* the tick unless one of stop()'s commands failed (C7), a stopped one     *)
(* gets no command.                                                        *)
C9_CriticalStopsAndCounts ==
    [][(TickStep /\ Critical) =>
          /\ failsafeTotal' = failsafeTotal + 1
          /\ systemStatus'.Mode = "failsafe shutdown"
          /\ outcome'.call = "stop"
          /\ outcome'.flowCmds = <<>>
          /\ circuitRunning =>
                /\ outcome'.callCmds # <<>>
                /\ outcome'.callCmds[1] = [dev |-> "pump", value |-> R(0),
                                           ok |-> outcome'.callCmds[1].ok]
                /\ ~Failed(outcome'.callCmds) => ~circuitRunning'
          /\ ~circuitRunning => (outcome'.callCmds = <<>> /\ ~circuitRunning')]_vars

C9_Witness ==
    /\ outcome.critical /\ outcome.branch = "critical"
    /\ ~outcome.preRunning /\ ~circuitRunning
    /\ outcome.preEmitted["pump"].value = 0
    /\ failsafeTotal = 2

(* C10: on a tick with no guard firing and delta <= SolarOff, the loop     *)
(* holds (reduced mode: no stop(), circuitRunning unchanged, the reduced   *)
(* flag set once the DutyMin write succeeded) exactly while less than the  *)
(* reduction window (30 minutes) has elapsed since the last modulating     *)
(* tick, and stops (stop() called, mode "stopped", flag cleared) on the    *)
(* first tick at or after the end of the window.                           *)
C10_HoldUntilWindowElapsed ==
    /\ outcome.branch = "reduced" =>
          /\ outcome.sinceModulating < reductionDuration
          /\ outcome.call = "none" /\ outcome.callCmds = <<>>
          /\ circuitRunning = outcome.preRunning
          /\ reducedMode \/ Failed(outcome.flowCmds)
    /\ outcome.branch = "shutdown" =>
          /\ outcome.sinceModulating >= reductionDuration
          /\ outcome.call = "stop"
          /\ systemStatus.Mode = "stopped"
          /\ ~reducedMode
          /\ ~Failed(outcome.callCmds) => ~circuitRunning
    /\ outcome.branch = "modulating" => reducedTill = reductionDuration

C10_Witness ==
    /\ outcome.branch = "shutdown"
    /\ outcome.preReduced /\ outcome.preRunning
    /\ outcome.delta = R(3)
    /\ outcome.sinceModulating = reductionDuration
    /\ ~circuitRunning

(* C11: feeding the same sensor values on two consecutive ticks issues no  *)
(* duplicate actuator write on the second tick; in the modulating branch   *)
(* the flow actuator is written only when the computed flow differs from   *)
(* the last commanded flow (flowRate holds the last value the flow         *)
(* actuator accepted).                                                     *)
C11_NoDuplicateFlowWrite ==
    [][(TickStep /\ outcome'.branch = "modulating") =>
          \A i \in DOMAIN outcome'.flowCmds :
              outcome'.flowCmds[i].value # flowRate]_vars

----------------------------------------------------------------------------
(* Properties of startup, configuration and the /health handler, checked   *)
(* under SpecStart.                                                        *)

(* C12: the control loop does not execute its first tick until each of the *)
(* four required sensors (SolarUp, SolarIn, SolarOut, TankUp) holds a real *)
(* reading (the value of a REST reply) rather than the value it had before *)
(* it was initialised; after a failed read the loop is never entered.      *)
C12_NoTickBeforeSensorsRead ==
    /\ (boot.pc = "loop" \/ outcome.tick > 0) => boot.read = SensorNames
    /\ boot.pc = "fatal" => (outcome.tick = 0 /\ boot.read # SensorNames)
    /\ boot.pc \notin {"loop"} => outcome.tick = 0

C12_Witness ==
    /\ outcome.tick = 1
    /\ boot.read = SensorNames
    /\ sensors.SolarIn = Rat(78, 25) /\ sensors.TankUp = R(44)

(* C13: a flow curve with TempMax = TempMin is rejected when the           *)
(* configuration is loaded: the control loop is never entered with such a  *)
(* curve, and calculateFlow is never evaluated with TempMax = TempMin,     *)
(* also not after a settings update received at runtime.                   *)
C13_DegenerateCurveRejected ==
    [][/\ (boot.pc # "loop" /\ boot'.pc = "loop")
              => settings.TempMax # settings.TempMin
       /\ (TickStep /\ outcome'.branch = "modulating")
              => settings.TempMax # settings.TempMin]_vars

(* Seconds a pass spent in the settle delays of its start() or stop().     *)
Slept(cmds) ==
    IF Failed(cmds) THEN (Len(cmds) - 1) * SettleDelay ELSE Len(cmds) * SettleDelay

(* C14 as claimed: the health endpoint reports healthy (200) exactly when  *)
(* a tick completed within the last 60 seconds, and unhealthy (500)        *)
(* otherwise, also before the first tick.  (health.at is the time since    *)
(* the last tick completed.)                                               *)
C14_HealthyIffTickCompleted ==
    health.code # 0 =>
        health.code = IF outcome.tick > 0 /\ health.at < HealthTimeout
                      THEN 200 ELSE 500

(* C14 as amended: the health endpoint reports healthy (200) exactly when  *)
(* the most recent tick began less than 60 seconds ago, and unhealthy      *)
(* (500) otherwise, also before the first tick.                            *)
C14_HealthyIffTickBegan ==
    health.code # 0 =>
        health.code = IF /\ outcome.tick > 0
                         /\ health.at + Slept(outcome.callCmds) < HealthTimeout
                      THEN 200 ELSE 500

C14_Witness ==
    /\ health.code = 500 /\ health.at = HealthTimeout - 3
    /\ outcome.tick > 0
    /\ outcome.call = "stop" /\ Len(outcome.callCmds) = 3
    /\ ~Failed(outcome.callCmds)

(* C15: with the invert flag set, every value written to the flow actuator *)
(* (from modulation, from entering reduced hold and from stop) equals 10   *)
(* minus the duty value chosen by the controller; with the flag unset it   *)
(* equals the duty value itself.                                           *)
Wired(duty) == IF invertFlow THEN RSub(R(10), duty) ELSE duty

C15_InvertFlipsEveryFlowWrite ==
    [][TickStep =>
          /\ \A i \in DOMAIN outcome'.flowCmds :
                outcome'.flowCmds[i].value =
                    Wired(IF outcome'.branch = "modulating"
                          THEN calculateFlow(LoopDelta) ELSE settings.DutyMin)
          /\ outcome'.flowCmds # <<>> => outcome'.branch \in {"modulating", "reduced"}
          /\ \A i \in DOMAIN outcome'.callCmds :
                outcome'.callCmds[i].dev = "flow" =>
                    /\ outcome'.call = "stop"
                    /\ outcome'.callCmds[i].value = Wired(settings.DutyMin)]_vars

C15_Witness ==
    /\ invertFlow
    /\ outcome.call = "stop" /\ Len(outcome.callCmds) = 3
    /\ outcome.callCmds[3] = [dev |-> "flow", value |-> Rat(82, 10), ok |-> TRUE]
    /\ flowRate = Rat(82, 10)

----------------------------------------------------------------------------
(* Further properties of the control loop, checked under Spec.             *)

HeatEscape == RLt(LoopDelta, R(0))

Max(a, b) == IF a > b THEN a ELSE b

(* C16: on any tick in which a guard fires (panelTemp >= SolarCritical,    *)
(* tankTemp > TankMax, or delta < 0), mode selection is skipped whatever   *)
(* the state of the reduced-duty window: start() is not called, no         *)
(* modulated flow is commanded, and reducedTill and the reduced-mode flag  *)
(* are left unchanged (the deadline only comes nearer by the time the tick *)
(* took).                                                                  *)
C16_GuardSkipsModeSelection ==
    [][(TickStep /\ (Critical \/ TankFull \/ HeatEscape)) =>
          /\ outcome'.branch \in {"critical", "tankfull", "heatescape"}
          /\ outcome'.call = "stop"
          /\ outcome'.flowCmds = <<>>
          /\ \A i \in PumpOrSwitch(outcome'.callCmds) :
                outcome'.callCmds[i].value = R(0)
          /\ reducedMode' = reducedMode
          /\ \E gap \in TickGaps :
                reducedTill' = Max(reducedTill - (gap - lastPass'), 0)]_vars

C16_Witness ==
    /\ outcome.branch = "tankfull"
    /\ outcome.preReduced /\ reducedMode
    /\ reducedTill > 0
    /\ outcome.preRunning /\ ~circuitRunning

Guards == {"critical", "tankfull", "heatescape"}

(* C17: if, on a tick where a guard condition holds, every actuator        *)
(* command issued on that tick succeeds, then after the tick the most      *)
(* recent command delivered to the pump is not ON, whatever happened       *)
(* before (a start() that failed between pump ON and valve ON included).   *)
C17_GuardLeavesPumpOff ==
    (outcome.branch \in Guards /\ ~Failed(outcome.callCmds))
        => emitted["pump"].delivered # 1

Cmd(dev, value, ok) == [dev |-> dev, value |-> value, ok |-> ok]

(* C18: start() emits pump ON strictly before valve ON, and circuitRunning *)
(* becomes true only after both commands succeeded; no valve ON is ever    *)
(* emitted without a preceding successful pump ON in the same call.        *)
C18_StartPumpThenValve ==
    LET cmds == outcome.callCmds
    IN  /\ (outcome.call = "start" /\ cmds # <<>>) =>
              /\ Len(cmds) <= 2
              /\ cmds[1] = Cmd("pump", R(1), cmds[1].ok)
              /\ Len(cmds) = 2 => cmds[2] = Cmd("switch", R(1), cmds[2].ok)
        /\ \A i \in DOMAIN cmds :
              (cmds[i].dev = "switch" /\ cmds[i].value = R(1)) =>
                  /\ outcome.call = "start" /\ i = 2
                  /\ cmds[1] = Cmd("pump", R(1), TRUE)
        /\ (circuitRunning /\ ~outcome.preRunning) =>
              /\ outcome.call = "start"
              /\ cmds = <<Cmd("pump", R(1), TRUE), Cmd("switch", R(1), TRUE)>>

C18_Witness ==
    /\ outcome.call = "start"
    /\ outcome.callCmds = <<Cmd("pump", R(1), TRUE), Cmd("switch", R(1), TRUE)>>
    /\ circuitRunning /\ ~outcome.preRunning
    /\ emitted["pump"].value = 1 /\ emitted["switch"].value = 1

(* C19: stop() emits pump OFF, then valve OFF, then the flow command       *)
(* DutyMin, in that order, and circuitRunning becomes false only after all *)
(* three succeeded; after every completed stop the last value commanded to *)
(* the flow actuator is DutyMin.                                           *)
C19_StopPumpValveFlow ==
    LET cmds == outcome.callCmds
    IN  /\ (outcome.call = "stop" /\ cmds # <<>>) =>
              /\ Len(cmds) <= 3
              /\ cmds[1] = Cmd("pump", R(0), cmds[1].ok)
              /\ Len(cmds) >= 2 =>
                    (cmds[1].ok /\ cmds[2] = Cmd("switch", R(0), cmds[2].ok))
              /\ Len(cmds) = 3 =>
                    (cmds[2].ok /\ cmds[3] = Cmd("flow", settings.DutyMin, cmds[3].ok))
        /\ (~circuitRunning /\ outcome.preRunning) =>
              /\ outcome.call = "stop"
              /\ Len(cmds) = 3 /\ ~Failed(cmds)
              /\ flowRate = settings.DutyMin

C19_Witness ==
    /\ outcome.call = "stop"
    /\ outcome.callCmds = <<Cmd("pump", R(0), TRUE), Cmd("switch", R(0), TRUE),
                            Cmd("flow", Rat(18, 10), TRUE)>>
    /\ ~circuitRunning /\ outcome.preRunning
    /\ flowRate = Rat(18, 10)

----------------------------------------------------------------------------
(* Hysteresis of the running state, checked under SpecStart.               *)

NoGuard == ~Critical /\ ~TankFull /\ ~HeatEscape

InBand == RGt(LoopDelta, settings.SolarOff) /\ RLt(LoopDelta, settings.SolarOn)

(* C20: the circuit running state changes from stopped to running only on  *)
(* a tick where no guard fires, delta > SolarOff, delta >= SolarOn and     *)
(* panelTemp > outletTemp; on a tick where no guard fires and delta is     *)
(* strictly between SolarOff and SolarOn, a stopped circuit stays stopped  *)
(* and a running circuit stays running.                                    *)
C20_StartOnlyAboveSolarOn ==
    [][TickStep =>
          /\ (~circuitRunning /\ circuitRunning') =>
                /\ NoGuard
                /\ RGt(LoopDelta, settings.SolarOff)
                /\ RGe(LoopDelta, settings.SolarOn)
                /\ RGt(sensors.SolarUp, sensors.SolarOut)
          /\ (NoGuard /\ InBand) =>
                /\ circuitRunning' = circuitRunning
                /\ outcome'.call = "none" /\ outcome'.callCmds = <<>>]_vars

C20_Witness ==
    /\ outcome.delta = Rat(11, 2)
    /\ outcome.branch = "modulating"
    /\ outcome.preRunning /\ circuitRunning
    /\ outcome.call = "none"

----------------------------------------------------------------------------
(* Reduced hold, shutdown and failures, checked under Spec.                *)

(* C21: each time the controller passes from the modulating branch into a  *)
(* reduced-hold window (delta <= SolarOff and now < reducedTill), the      *)
(* second and later windows of a run included, it commands flow = DutyMin, *)
(* so that on every reduced-hold tick the last value commanded to the flow *)
(* actuator is DutyMin; stop() is not called during the hold and           *)
(* circuitRunning is unchanged.  (flowRate is the last value the flow      *)
(* actuator accepted; a tick whose DutyMin write failed is left out.)      *)
C21_EveryHoldCommandsDutyMin ==
    (outcome.branch = "reduced" /\ ~Failed(outcome.flowCmds)) =>
        /\ flowRate = Wired(settings.DutyMin)
        /\ outcome.call = "none" /\ outcome.callCmds = <<>>
        /\ circuitRunning = outcome.preRunning

(* C22: on a tick with no guard firing, delta <= SolarOff and              *)
(* now >= reducedTill, the controller clears the reduced-mode flag, calls  *)
(* stop and reports mode "stopped"; if the actuator commands succeed the   *)
(* circuit is not running after the tick.  (A tick starts at least         *)
(* TickSleep after the previous one ended, so now >= reducedTill when      *)
(* reducedTill <= TickSleep, and whenever the loop does not hold.)         *)
C22_ShutdownAfterWindow ==
    [][(/\ TickStep
        /\ NoGuard
        /\ RLe(LoopDelta, settings.SolarOff)
        /\ (reducedTill <= TickSleep \/ outcome'.branch # "reduced")) =>
          /\ outcome'.branch = "shutdown"
          /\ ~reducedMode' /\ reducedModeMetric' = 0
          /\ outcome'.call = "stop"
          /\ systemStatus'.Mode = "stopped"
          /\ outcome'.flowCmds = <<>>
          /\ ~Failed(outcome'.callCmds) => ~circuitRunning']_vars

C22_Witness ==
    /\ outcome.branch = "shutdown"
    /\ outcome.preReduced /\ ~reducedMode
    /\ outcome.preRunning /\ ~circuitRunning
    /\ Len(outcome.callCmds) = 3
    /\ systemStatus.Mode = "stopped"
    /\ reducedModeMetric = 0

(* The actuator commands of a tick, in the order they were issued.         *)
TickCmds == outcome.callCmds \o outcome.flowCmds

(* C23: if an actuator command fails during a tick, the tick is aborted    *)
(* early: no further actuator command is issued in that tick (a failed     *)
(* start() is not followed by a flow command in the same tick), and the    *)
(* failed operation is not retried within the tick.                        *)
C23_FailureEndsTick ==
    /\ \A i \in DOMAIN TickCmds : ~TickCmds[i].ok => i = Len(TickCmds)
    /\ \A i, j \in DOMAIN TickCmds : TickCmds[i].dev = TickCmds[j].dev => i = j

----------------------------------------------------------------------------
(* The reported mode in the modulating branch, checked under SpecStart.    *)

(* C24: every tick that takes the modulating branch (no guard fires and    *)
(* delta > SolarOff) pushes reducedTill to now + 30 minutes and reports    *)
(* mode "working", also when the previous reported mode was "reduced       *)
(* mode", "stopped" or a guard mode and delta is below SolarOn.            *)
C24_ModulatingReportsWorking ==
    outcome.branch = "modulating" =>
        /\ reducedTill = reductionDuration
        /\ systemStatus.Mode = "working"

----------------------------------------------------------------------------
(* The guards next to each other: the loop fed with readings in which the  *)
(* heat-escape condition holds alone, with a full tank and with a critical *)
(* panel, and with a reading that asks for a start.                        *)

(* Panel voltages: 2.76 V = 46 C, 3.12 V = 52 C, 5.7 V = 95 C.             *)
GuardPayloads ==
    { Reading(Rat(69, 25), 50, 44, 50),     \* delta -5
      Reading(Rat(69, 25), 50, 44, 70),     \* delta -5 and tank full
      Reading(Rat(57, 10), 100, 44, 50),    \* delta -30.5 and critical
      Reading(Rat(78, 25), 42, 44, 50) }    \* delta 6

GuardFails == {{}, {"pump"}}

NextGuard ==
    \/ \E gap \in TickGaps, fails \in GuardFails : Tick(gap, fails)
    \/ \E data \in GuardPayloads : ParseEvok(data)

SpecGuard == Init /\ [][NextGuard]_vars

(* C25: on a tick where panelTemp < SolarCritical, tankTemp <= TankMax and *)
(* delta < 0, the controller calls stop() with mode "heat escape           *)
(* prevention mode" and increments only the heat-escape counter; when      *)
(* tankTemp > TankMax holds as well, the tank-full guard wins and the      *)
(* heat-escape counter is unchanged.                                       *)
C25_HeatEscapeAfterTankFull ==
    [][(TickStep /\ ~Critical /\ HeatEscape) =>
          IF TankFull
          THEN /\ outcome'.branch = "tankfull"
               /\ systemStatus'.Mode = "tank filled"
               /\ tankfullTotal' = tankfullTotal + 1
               /\ UNCHANGED <<heatescapeTotal, failsafeTotal>>
          ELSE /\ outcome'.branch = "heatescape"
               /\ systemStatus'.Mode = "heat escape prevention mode"
               /\ outcome'.call = "stop"
               /\ ~Failed(outcome'.callCmds) => ~circuitRunning'
               /\ heatescapeTotal' = heatescapeTotal + 1
               /\ UNCHANGED <<tankfullTotal, failsafeTotal>>]_vars

(* A heat-escape stop on one tick, and on a later tick the tank-full guard *)
(* winning over a negative delta.                                          *)
C25_Witness ==
    /\ outcome.branch = "tankfull" /\ RLt(outcome.delta, R(0))
    /\ ~outcome.critical
    /\ heatescapeTotal = 1 /\ tankfullTotal = 1 /\ failsafeTotal = 0
    /\ systemStatus.Mode = "tank filled"

(* C26: guards do not latch.  After a tick on which a guard forced a stop, *)
(* on the first later tick where no guard condition holds, delta >=        *)
(* SolarOn, delta > SolarOff and panelTemp > outletTemp, start() is called *)
(* and, if its commands succeed, the circuit is running after that tick.   *)
C26_GuardsDoNotLatch ==
    [][(/\ TickStep /\ outcome.branch \in Guards /\ NoGuard
        /\ RGe(LoopDelta, settings.SolarOn) /\ RGt(LoopDelta, settings.SolarOff)
        /\ RGt(sensors.SolarUp, sensors.SolarOut)) =>
          /\ outcome'.branch = "modulating"
          /\ outcome'.call = "start"
          /\ systemStatus'.Mode = "working"
          /\ ~Failed(outcome'.callCmds) => circuitRunning']_vars

(* Running, stopped by a guard, and started again on the tick after.       *)
C26_Witness ==
    /\ outcome.tick = 3 /\ outcome.call = "start" /\ ~outcome.preRunning
    /\ Len(outcome.callCmds) = 2 /\ circuitRunning
    /\ outcome.preEmitted.pump.value = 0
    /\ heatescapeTotal + tankfullTotal + failsafeTotal = 1

----------------------------------------------------------------------------
(* The loop next to the two ingestion paths: a pass that sleeps in start() *)
(* or stop() is taken in two steps, and websocket readings and settings    *)
(* messages are delivered in between.                                      *)

RacePayloads ==
    { Reading(Rat(78, 25), 42, 44, 50),     \* delta 6
      Reading(Rat(78, 25), 42, 44, 70) }    \* tank full

(* Updates of the flow curve's upper temperature and of the minimal duty.  *)
RaceMessages ==
    { <<Topics.TempMax, "5">>, <<Topics.TempMax, "9">>,
      <<Topics.DutyMin, "3">>, <<Topics.DutyMin, "1.8">> }

RaceFails == {{}, {"flow"}}

NextRace ==
    \/ \E gap \in TickGaps, fails \in RaceFails : Tick(gap, fails)
    \/ \E gap \in TickGaps, fails \in RaceFails : TickBegin(gap, fails)
    \/ TickEnd
    \/ \E data \in RacePayloads : ParseEvok(data)
    \/ \E m \in RaceMessages : OnMessage(m)

SpecRace == Init /\ [][NextRace]_vars

(* C27: all decisions of one tick are taken on one snapshot of sensors and *)
(* settings.  A sensor or setting update that arrives while the tick is    *)
(* executing (during a settle delay in start() or stop()) does not change  *)
(* the delta, the guard outcome, the start decision, the commanded flow or *)
(* the DutyMin sent by stop() for that tick: the tick ends with the        *)
(* commands computed from the values read when it began.                   *)
C27_TickUsesOneSnapshot ==
    [][(inTick.pc = "settle" /\ inTick' = Idle) =>
          /\ outcome'.delta = inTick.seen.delta
          /\ outcome'.branch = inTick.r.branch
          /\ outcome'.call = inTick.r.call
          /\ outcome'.flowCmds = inTick.r.flowCmds
          /\ outcome'.callCmds = inTick.r.res.cmds]_vars

----------------------------------------------------------------------------
(* Writers of the shared fields, checked under SpecStart.                  *)

LoopState == <<circuitRunning, reducedTill, reducedMode>>

(* C28: the running flag, reducedTill and the reduced-mode flag are        *)
(* written only by the control loop and by initialisation before the loop  *)
(* starts; the sensor-ingestion task and the settings callback never write *)
(* them (a step that changes a sensor or a setting changes nothing else of *)
(* the program), and the control loop never writes a sensor or a setting.  *)
C28_SingleWriter ==
    [][/\ LoopState' # LoopState => (TickStep \/ boot.pc = "reset")
       /\ TickStep => UNCHANGED <<sensors, settings>>
       /\ sensors' # sensors =>
             /\ ~TickStep /\ boot.pc # "reset"
             /\ UNCHANGED <<settings, LoopState, systemStatus, flowRate, lastPass>>
       /\ settings' # settings =>
             /\ ~TickStep /\ boot' = boot
             /\ UNCHANGED <<sensors, LoopState, systemStatus, flowRate, lastPass>>]_vars

(* The loop has set the running flag and the window on one reading and    *)
(* the reduced-mode flag on a reading that arrived after it.               *)
C28_Witness ==
    /\ outcome.branch = "reduced" /\ circuitRunning /\ reducedMode /\ reducedTill > 0
    /\ outcome.delta = R(3) /\ outcome.tick = 2

----------------------------------------------------------------------------
(* The loop after failed commands, checked under Spec.                     *)

----------------------------------------------------------------------------
(* The end of the hold window, checked under Spec.                         *)

(* C30: if from some tick on no guard fires, delta stays <= SolarOff and   *)
(* all actuator commands succeed, then the circuit is stopped no later     *)
(* than the first tick that begins 30 minutes or more after the last       *)
(* modulating tick ended, and stays stopped for as long as those           *)
(* conditions continue.  (outcome.sinceModulating is the time from the end *)
(* of the last modulating tick to the beginning of this one.)              *)
C30_StoppedByEndOfWindow ==
    (outcome.branch \in {"reduced", "shutdown"} /\ ~Failed(TickCmds)) =>
        /\ outcome.sinceModulating >= reductionDuration => ~circuitRunning
        /\ ~outcome.preRunning => ~circuitRunning

(* The circuit was running, was stopped at the end of the window, and a    *)
(* further tick under the same conditions has left it stopped.             *)
C30_Witness ==
    /\ outcome.tick = 4 /\ outcome.branch = "shutdown"
    /\ ~outcome.preRunning /\ ~circuitRunning
    /\ outcome.sinceModulating = reductionDuration
    /\ outcome.preEmitted.pump.delivered = 0 /\ emitted.pump.delivered = 0
    /\ failsafeTotal + tankfullTotal + heatescapeTotal = 0

----------------------------------------------------------------------------
(* The reduced-mode flag, the reported mode and the flow written while the *)
(* circuit is stopped.                                                     *)

(* C31: the reduced-mode flag (and the solar_reduced_mode gauge) is true   *)
(* only while the controller is inside a reduced-hold window: after any    *)
(* tick that takes the modulating branch or in which a guard stops the     *)
(* circuit, the flag is false and the gauge is 0.                          *)
C31_ReducedFlagOnlyInHold ==
    outcome.branch \in Guards \cup {"modulating"} =>
        ~reducedMode /\ reducedModeMetric = 0

(* Modes that report a running circuit and modes that report a stopped one. *)
StoppedModes ==
    {"stopped", "failsafe shutdown", "tank filled", "heat escape prevention mode"}

(* C32: the reported status mode agrees with the running flag at the end   *)
(* of every tick, also when actuator commands fail: mode "working" implies *)
(* circuitRunning, and modes "stopped", "failsafe shutdown", "tank filled" *)
(* and "heat escape prevention mode" imply that circuitRunning is false.   *)
C32_ModeAgreesWithRunning ==
    outcome.tick >= 1 =>
        /\ systemStatus.Mode = "working" => circuitRunning
        /\ systemStatus.Mode \in StoppedModes => ~circuitRunning

(* C33: initialisation leaves the actuators in a known off state: the      *)
(* stop("SYSTEM RESET") call of init() emits pump OFF, valve OFF and       *)
(* flow = DutyMin before the first tick.  (emitted.*.value is -1 while no  *)
(* command was emitted; checked under SpecStart.)                          *)
C33_ResetEmitsOff ==
    (boot.pc = "loop" /\ outcome.tick = 0) =>
        /\ emitted.pump.value = 0
        /\ emitted.switch.value = 0
        /\ flowRate = Wired(settings.DutyMin)

(* C34: reduced mode is entered only with the circuit running: on every    *)
(* tick that takes the reduced-hold branch and reports "reduced mode",     *)
(* circuitRunning is true.                                                 *)
C34_HoldOnlyWhileRunning ==
    (outcome.branch = "reduced" /\ systemStatus.Mode = "reduced mode") =>
        circuitRunning

(* C35: while circuitRunning is false, no flow value other than DutyMin is *)
(* commanded to the flow actuator: the modulating branch writes a computed *)
(* flow only when the circuit is running.                                  *)
C35_NoModulatedFlowWhileStopped ==
    (outcome.tick >= 1 /\ ~circuitRunning) =>
        \A i \in DOMAIN outcome.flowCmds :
            outcome.flowCmds[i].value = Wired(settings.DutyMin)

----------------------------------------------------------------------------
(* The panel reading, checked under SpecStart.                             *)

Range(seq) == {seq[i] : i \in DOMAIN seq}

(* The voltages the panel's analog input reports, over REST or over the    *)
(* websocket.                                                              *)
PanelVoltages ==
    {r.value : r \in {q \in RestReplies : ~q.fails}}
    \cup {d.value : d \in {x \in UNION {Range(p) : p \in StartPayloads} :
                               /\ x.dev = SensorId.SolarUp.dev
                               /\ x.circuit = SensorId.SolarUp.circuit}}

(* C36: every value held by the panel sensor SolarUp when the control loop *)
(* reads it is a temperature obtained from the analog voltage through      *)
(* calculateTemperature (voltage * 200 / 12), both for the value loaded at *)
(* start-up and for values received over the websocket.                    *)
C36_PanelIsConvertedVoltage ==
    boot.pc = "loop" =>
        sensors.SolarUp \in {calculateTemperature(v) : v \in PanelVoltages}

----------------------------------------------------------------------------
(* The division in calculateFlow, checked under SpecFlow.                  *)

----------------------------------------------------------------------------
(* The revision of main() that reads its settings from Home Assistant: the *)
(* loop checks the emergency switch first, then goes on as above.          *)

(* getSingleValue of pkg/homeassistant on the state string of an entity.   *)
getSingleValue(state) ==
    IF state = "on" THEN [value |-> R(1), err |-> FALSE]
    ELSE IF state = "off" THEN [value |-> R(0), err |-> FALSE]
    ELSE LET p == ParseFloat(state)
         IN  IF p.err THEN [value |-> R(-1), err |-> TRUE] ELSE p

updateEntityValue(value, state) ==
    LET r == getSingleValue(state)
    IN  IF r.err THEN value ELSE r.value

(* States of the emergency entity: the switch, a number, no number.        *)
HassStates == {"on", "off", "3", "unavailable"}

(* The periodic hass.UpdateAll(), for the emergency entity.                *)
UpdateEmergency(state) ==
    /\ boot.pc = "loop"
    /\ solarEmergency' = updateEntityValue(solarEmergency, state)
    /\ UNCHANGED <<settings, sensors, circuitRunning, invertFlow, lastPass,
                   systemStatus, reducedTill, reducedMode, failsafeTotal,
                   tankfullTotal, heatescapeTotal, reducedModeMetric, flowRate,
                   circuitRunningMetric, outcome, emitted, boot, health, probe,
                   inTick, emergencyTotal>>

IterationEmergency_afterCritical(t0, fails) ==   \* the switch checked after the panel
    IF RGe(sensors.SolarUp, settings.SolarCritical)
    THEN [GuardStop("failsafe shutdown", "critical", t0, fails)
             EXCEPT !.failsafe = failsafeTotal + 1]
    ELSE IF solarEmergency # R(0)
    THEN GuardStop("emergency shutoff", "emergency", t0, fails)
    ELSE Iteration(t0, fails)

IterationEmergency(t0, fails) ==
    IF solarEmergency # R(0)
    THEN GuardStop("emergency shutoff", "emergency", t0, fails)
    ELSE Iteration(t0, fails)

(* delta is assigned after the emergency check; before it, the variable    *)
(* holds the value of the previous pass.                                   *)
SeenEmergency ==
    IF solarEmergency # R(0) THEN [Seen EXCEPT !.delta = outcome.delta] ELSE Seen

TickEmergency(gap, fails) ==
    LET r == IterationEmergency(gap, fails)
        n == IF r.branch = "emergency" THEN emergencyTotal + 1 ELSE emergencyTotal
    IN  /\ inTick = Idle
        /\ n <= MaxCount
        /\ Pass(gap, r, SeenEmergency)
        /\ emergencyTotal' = n
        /\ UNCHANGED <<inTick, solarEmergency>>

EmergencyPayloads ==
    { Reading(Rat(57, 10), 42, 44, 70),     \* critical and tank full
      Reading(Rat(69, 25), 50, 44, 50),     \* delta -5
      Reading(Rat(69, 25), 42, 44, 50),     \* delta 3
      Reading(Rat(78, 25), 42, 44, 50) }    \* delta 6

NextEmergency ==
    \/ \E gap \in TickGaps, fails \in GuardFails : TickEmergency(gap, fails)
    \/ \E data \in EmergencyPayloads : ParseEvok(data)
    \/ \E state \in HassStates : UpdateEmergency(state)

SpecEmergency == Init /\ [][NextEmergency]_vars

(* C38: in the revision with the emergency setting, on every tick where    *)
(* SolarEmergency is non-zero the controller reports "emergency shutoff",  *)
(* calls stop, increments only the emergency counter and ends the tick     *)
(* before delta is computed or any other guard is evaluated, so emergency  *)
(* shutoff preempts the critical, tank-full and heat-escape guards and     *)
(* mode selection.                                                         *)
C38_EmergencyPreempts ==
    [][(TickStep /\ solarEmergency # R(0)) =>
          /\ systemStatus'.Mode = "emergency shutoff"
          /\ outcome'.branch = "emergency" /\ outcome'.call = "stop"
          /\ ~Failed(outcome'.callCmds) => ~circuitRunning'
          /\ emergencyTotal' = emergencyTotal + 1
          /\ UNCHANGED <<failsafeTotal, tankfullTotal, heatescapeTotal>>
          /\ outcome'.delta = outcome.delta
          /\ outcome'.flowCmds = <<>>
          /\ reducedTill' <= reducedTill
          /\ UNCHANGED <<reducedMode, reducedModeMetric>>]_vars

(* A running circuit stopped by the switch on a tick on which the panel is *)
(* critical and the tank is full.                                          *)
C38_Witness ==
    /\ outcome.branch = "emergency" /\ outcome.critical /\ outcome.tankfull
    /\ outcome.preRunning /\ ~circuitRunning /\ Len(outcome.callCmds) = 3
    /\ emergencyTotal = 1 /\ failsafeTotal = 0 /\ tankfullTotal = 0
    /\ systemStatus.Mode = "emergency shutoff"

====
